---- MODULE Spec2Model ----
(***************************************************************************)
(* fix-ardour-lv2-index: the patch engine (session.rs, patch.rs), the      *)
(* plugin metadata provider as seen through lv2.rs, and the command line   *)
(* driver (main.rs, args.rs).                                              *)
(*                                                                         *)
(* Text is a sequence of one-character strings (bytes).  Offsets are       *)
(* 0-based and ranges half-open, as Range<usize> in the source.  An        *)
(* Option<T> is a sequence of length 0 (None) or 1 (Some).                 *)
(*                                                                         *)
(* The XML library (roxmltree) is outside the repository: a document is    *)
(* the parsed tree, the input text is its serialisation, and an            *)
(* attribute's range_value() is where that serialisation puts the value.   *)
(* Attribute values hold no entity references, so value() is the raw text. *)
(***************************************************************************)
EXTENDS Integers, Sequences, FiniteSets, TLC

VARIABLES
    xml,            \* the input text handed to patch()
    doc,            \* roxmltree::Document parsed from xml
    plugins,        \* provider state: uri -> Option<plugin description>
    ports,          \* Patcher.ports : PortMap {count, index}
    replacements,   \* Patcher.replacements, then PatchedSession.replacements
    next,           \* populate_replacements: the loop variable `next`
    pc,             \* position of the run
    out,            \* text rendered by Display for PatchedSession
    applied,        \* replacements the renderer wrote (not skipped), in order
    pass,           \* 1: first patch run, 2: patch run over the first output
    calls,          \* log of PortMap::index calls of this run
    parsed,         \* log of Processor::parse results of this run
    args,           \* main.rs run(): the RunArgs
    stdin,          \* the text on standard input
    fs,             \* the files: [session, out, backup], each Option<text>
    fs0,            \* the files as they were when the process started
    backup,         \* create_backup: the loop variable i
    stdout,         \* text printed to standard output
    events,         \* the steps of run() taken so far, in order
    exit            \* the ExitCode main returns ("running" before it does)

vars == <<xml, doc, plugins, ports, replacements, next, pc, out, applied,
          pass, calls, parsed, args, stdin, fs, fs0, backup, stdout, events,
          exit>>

patchVars == <<xml, doc, plugins, ports, replacements, next, out, applied,
               pass, calls, parsed>>
mainVars == <<args, stdin, fs, fs0, backup, stdout, events, exit>>

---------------------------------------------------------------------------
(* Bounds of the model.                                                    *)

\* largest number of occurrence elements in a generated reference element
MaxOcc == 3
\* largest number of backup files that exist before the process starts
MaxBackups == 2
\* largest number of elements below the Session element of a nested document
MaxNodes == 3

---------------------------------------------------------------------------
(* Options, sequences, text.                                               *)

None == <<>>
Some(v) == <<v>>

RECURSIVE Concat(_)
Concat(ss) == IF ss = <<>> THEN <<>> ELSE Head(ss) \o Concat(Tail(ss))

Slice(s, a, b) == SubSeq(s, a + 1, b)       \* &s[a..b]

Digits == <<"0", "1", "2", "3", "4", "5", "6", "7", "8", "9">>

IsAsciiDigit(b) == \E k \in 1..10 : Digits[k] = b
DigitValue(b) == (CHOOSE k \in 1..10 : Digits[k] = b) - 1

\* u32's Display: decimal digits, no leading zeros
RECURSIVE ToDecimal(_)
ToDecimal(n) ==
    IF n < 10 THEN <<Digits[n + 1]>>
    ELSE ToDecimal(n \div 10) \o <<Digits[(n % 10) + 1]>>

RECURSIVE DigitsValue(_)
DigitsValue(s) ==
    IF s = <<>> THEN 0
    ELSE 10 * DigitsValue(SubSeq(s, 1, Len(s) - 1)) + DigitValue(s[Len(s)])

\* <u32 as FromStr>::from_str: an optional leading "+", then one or more
\* digits (the texts of the model are far below u32::MAX)
U32FromStr(s) ==
    LET body == IF s # <<>> /\ s[1] = "+" THEN Tail(s) ELSE s
    IN  IF body # <<>> /\ \A k \in 1..Len(body) : IsAsciiDigit(body[k])
        THEN Some(DigitsValue(body))
        ELSE None

\* mutant: the check that every byte is an ASCII digit is left out
ParameterIndexAnySign(s) == U32FromStr(s)

\* impl FromStr for ParameterIndex
ParameterIndexFromStr(s) ==
    IF ~(\A k \in 1..Len(s) : IsAsciiDigit(s[k])) THEN None
    ELSE U32FromStr(s)

---------------------------------------------------------------------------
(* The document model (roxmltree, consumed through Node's methods).        *)
(* A tree is [parent, node]: nodes are numbered in document order, node 1  *)
(* is the document root (no tag name, parent 0), node[i] = [tag, attr].    *)

AttrNames == <<"type", "unique-id", "automation-id", "parameter", "symbol">>

AttrByte == [n \in {AttrNames[k] : k \in 1..Len(AttrNames)} |->
               CASE n = "type" -> "t"
                 [] n = "unique-id" -> "u"
                 [] n = "automation-id" -> "a"
                 [] n = "parameter" -> "p"
                 [] n = "symbol" -> "s"]

NoAttrs == [n \in DOMAIN AttrByte |-> None]

Element(tag, attrs) == [tag |-> tag, attr |-> attrs @@ NoAttrs]

RootNode == [tag |-> "", attr |-> NoAttrs]

TagByte(tag) ==
    CASE tag = "Processor" -> "P"
      [] tag = "AutomationList" -> "A"
      [] tag = "Controllable" -> "C"
      [] OTHER -> "o"

\* the bytes of one attribute: ` n="value"`
AttrText(name, v) ==
    IF v = None THEN <<>>
    ELSE <<" ", AttrByte[name], "=", "\"">> \o v[1] \o <<"\"">>

RECURSIVE AttrsText(_, _)
AttrsText(n, k) ==
    IF k = 0 THEN <<>>
    ELSE AttrsText(n, k - 1) \o AttrText(AttrNames[k], n.attr[AttrNames[k]])

OpenTag(n) ==
    IF n.tag = "" THEN <<>>
    ELSE <<"<", TagByte(n.tag)>> \o AttrsText(n, Len(AttrNames)) \o <<">">>

CloseTag(n) == IF n.tag = "" THEN <<>> ELSE <<"<", "/", ">">>

Nodes(t) == 1..Len(t.node)
Children(t, i) == {j \in Nodes(t) : t.parent[j] = i}

Min(S) == CHOOSE m \in S : \A o \in S : m <= o

\* Node::first_child, Node::next_sibling, Node::has_tag_name, Node::attribute
first_child(t, i) ==
    IF Children(t, i) = {} THEN None ELSE Some(Min(Children(t, i)))

next_sibling(t, i) ==
    LET later == {j \in Children(t, t.parent[i]) : j > i}
    IN  IF later = {} THEN None ELSE Some(Min(later))

has_tag_name(t, i, name) == t.node[i].tag = name

attribute(t, i, name) == t.node[i].attr[name]

\* Node::ancestors: the node itself, then its parent, up to the root
RECURSIVE ancestors(_, _)
ancestors(t, i) ==
    IF i = 0 THEN <<>> ELSE <<i>> \o ancestors(t, t.parent[i])

IsDescendant(t, j, i) ==
    \E k \in 2..Len(ancestors(t, j)) : ancestors(t, j)[k] = i

\* the serialisation of a tree: the input text it is parsed from
RECURSIVE NodeText(_, _)
RECURSIVE ChildrenText(_, _)
NodeText(t, i) ==
    OpenTag(t.node[i]) \o ChildrenText(t, first_child(t, i))
        \o CloseTag(t.node[i])
ChildrenText(t, c) ==
    IF c = None THEN <<>>
    ELSE NodeText(t, c[1]) \o ChildrenText(t, next_sibling(t, c[1]))

InputText(t) == NodeText(t, 1)

\* Node::range().start: the offset of the node's open tag.  Every earlier
\* node has opened; those that are not ancestors have closed as well.
RECURSIVE NodeOffset(_, _, _)
NodeOffset(t, i, j) ==
    IF j = 0 THEN 0
    ELSE NodeOffset(t, i, j - 1) + Len(OpenTag(t.node[j]))
         + (IF IsDescendant(t, i, j) THEN 0 ELSE Len(CloseTag(t.node[j])))

AttrIndex(name) == CHOOSE k \in 1..Len(AttrNames) : AttrNames[k] = name

\* roxmltree::Document::parse on the text of tree t: the tree with the
\* positions of its nodes
Document(t) ==
    [parent |-> t.parent, node |-> t.node,
     pos |-> [i \in Nodes(t) |-> NodeOffset(t, i, i - 1)]]

\* Attribute::range_value: the bytes of the value, without the quotes
range_value(d, i, name) ==
    LET n == d.node[i]
        start == d.pos[i] + 2 + Len(AttrsText(n, AttrIndex(name) - 1)) + 4
    IN  [start |-> start, end |-> start + Len(n.attr[name][1])]

---------------------------------------------------------------------------
(* lv2.rs: the provider.  plugins[uri] is None or Some of a description    *)
(* [num_ports, symbols], symbols a function from port symbol to index.     *)

\* Plugins::get
PluginsGet(pl, uri) == pl[uri]

\* Plugin::num_ports, Plugin::port_index
num_ports(plugin) == plugin.num_ports

port_index(plugin, symbol) ==
    IF symbol \in DOMAIN plugin.symbols THEN Some(plugin.symbols[symbol])
    ELSE None

---------------------------------------------------------------------------
(* session.rs: Processor = [uri, symbols, parameters].                     *)

PREFIX == <<"p", "a", "r", "a", "m", "e", "t", "e", "r", "-">>

\* str::strip_prefix
strip_prefix(v, prefix) ==
    IF Len(v) >= Len(prefix) /\ SubSeq(v, 1, Len(prefix)) = prefix
    THEN Some(SubSeq(v, Len(prefix) + 1, Len(v)))
    ELSE None

\* HashMap::insert
MapInsert(m, k, v) == [x \in DOMAIN m \cup {k} |-> IF x = k THEN v ELSE m[x]]

EmptyMap == [x \in {} |-> 0]

\* mutant: the range keeps the prefix (range.start is not advanced)
on_automation_list_whole_value(this, d, node) ==
    LET attr == attribute(d, node, "automation-id")
        index == strip_prefix(attr[1], PREFIX)
        parsed_index == ParameterIndexFromStr(index[1])
    IN  IF attr = None THEN this
        ELSE IF index = None THEN this
        ELSE IF parsed_index = None THEN this
        ELSE [this EXCEPT !.parameters =
                Append(@, [index |-> parsed_index[1],
                           range |-> range_value(d, node, "automation-id")])]

\* Processor::on_automation_list
on_automation_list(this, d, node) ==
    LET attr == attribute(d, node, "automation-id")
        index == strip_prefix(attr[1], PREFIX)
        parsed_index == ParameterIndexFromStr(index[1])
        range == range_value(d, node, "automation-id")
    IN  IF attr = None THEN this
        ELSE IF index = None THEN this
        ELSE IF parsed_index = None THEN this
        ELSE [this EXCEPT !.parameters =
                Append(@, [index |-> parsed_index[1],
                           range |-> [start |-> range.start + Len(PREFIX),
                                      end |-> range.end]])]

\* Processor::on_controllable
on_controllable(this, d, node) ==
    LET index_attr == attribute(d, node, "parameter")
        parsed_index == ParameterIndexFromStr(index_attr[1])
        symbol == attribute(d, node, "symbol")
    IN  IF index_attr = None THEN this
        ELSE IF parsed_index = None THEN this
        ELSE IF symbol = None THEN this
        ELSE [this EXCEPT
                !.symbols = MapInsert(@, parsed_index[1], symbol[1]),
                !.parameters =
                    Append(@, [index |-> parsed_index[1],
                               range |-> range_value(d, node, "parameter")])]

\* mutant: the climb does not stop at node (no take_while)
RECURSIVE SiblingBelowLeaves(_, _, _)
SiblingBelowLeaves(d, anc, node) ==
    IF anc = <<>> THEN None
    ELSE IF next_sibling(d, Head(anc)) # None THEN next_sibling(d, Head(anc))
    ELSE SiblingBelowLeaves(d, Tail(anc), node)

\* the closure of Processor::parse's loop: the next sibling of the first of
\* descendant's ancestors (itself first) that has one, stopping below node
RECURSIVE SiblingBelow(_, _, _)
SiblingBelow(d, anc, node) ==
    IF anc = <<>> \/ Head(anc) = node THEN None
    ELSE IF next_sibling(d, Head(anc)) # None THEN next_sibling(d, Head(anc))
    ELSE SiblingBelow(d, Tail(anc), node)

\* mutant: the loop goes down into AutomationList and Controllable too
RECURSIVE ParseLoopDescends(_, _, _, _)
ParseLoopDescends(d, node, nxt, this) ==
    IF nxt = None THEN this
    ELSE LET descendant == nxt[1]
             seen == [this EXCEPT !.visited = Append(@, descendant)]
             isAL == has_tag_name(d, descendant, "AutomationList")
             isC == has_tag_name(d, descendant, "Controllable")
             this1 == IF isAL THEN on_automation_list(seen, d, descendant)
                      ELSE IF isC THEN on_controllable(seen, d, descendant)
                      ELSE seen
             down == first_child(d, descendant)
             nxt1 == IF down # None THEN down
                     ELSE SiblingBelow(d, ancestors(d, descendant), node)
         IN  ParseLoopDescends(d, node, nxt1, this1)

\* the loop of Processor::parse; this.visited logs the nodes it looks at
RECURSIVE ParseLoop(_, _, _, _)
ParseLoop(d, node, nxt, this) ==
    IF nxt = None THEN this
    ELSE LET descendant == nxt[1]
             seen == [this EXCEPT !.visited = Append(@, descendant)]
             isAL == has_tag_name(d, descendant, "AutomationList")
             isC == has_tag_name(d, descendant, "Controllable")
             this1 == IF isAL THEN on_automation_list(seen, d, descendant)
                      ELSE IF isC THEN on_controllable(seen, d, descendant)
                      ELSE seen
             down == IF isAL \/ isC THEN None ELSE first_child(d, descendant)
             nxt1 == IF down # None THEN down
                     ELSE SiblingBelow(d, ancestors(d, descendant), node)
         IN  ParseLoop(d, node, nxt1, this1)

Lv2 == <<"l", "v", "2">>

\* Processor::parse
ProcessorParse(d, node) ==
    IF attribute(d, node, "type") # Some(Lv2) THEN None
    ELSE IF attribute(d, node, "unique-id") = None THEN None
    ELSE Some(ParseLoop(d, node, first_child(d, node),
                        [uri |-> attribute(d, node, "unique-id")[1],
                         symbols |-> EmptyMap,
                         parameters |-> <<>>,
                         visited |-> <<>>]))

\* Processor::parameters: the Parameter records, in the order of
\* self.parameters, of the entries whose index has a symbol
RECURSIVE parameters(_)
parameters(this) ==
    IF this.parameters = <<>> THEN <<>>
    ELSE LET e == Head(this.parameters)
             rest == parameters([this EXCEPT !.parameters = Tail(@)])
         IN  IF e.index \in DOMAIN this.symbols
             THEN <<[symbol |-> this.symbols[e.index],
                     location |-> e.range,
                     old_index |-> e.index]>> \o rest
             ELSE rest

---------------------------------------------------------------------------
(* patch.rs                                                                *)

PortId(uri, symbol) == [uri |-> uri, symbol |-> symbol]

\* PortMap::new
PortMapNew == [count |-> EmptyMap, index |-> EmptyMap]

\* mutant: a fallback index is handed out but not entered in the cache
PortMapIndexForgets(pm, plugin, id) ==
    IF id \in DOMAIN pm.index
    THEN [ports |-> pm, value |-> pm.index[id], how |-> "cached"]
    ELSE IF port_index(plugin, id.symbol) # None
    THEN LET i == port_index(plugin, id.symbol)[1]
         IN  [ports |-> [pm EXCEPT !.index = MapInsert(@, id, i)],
              value |-> i, how |-> "found"]
    ELSE LET count == IF id.uri \in DOMAIN pm.count THEN pm.count[id.uri]
                      ELSE num_ports(plugin)
         IN  [ports |-> [count |-> MapInsert(pm.count, id.uri, count + 1),
                         index |-> pm.index],
              value |-> count, how |-> "fallback"]

\* mutant: the fallback counter is not advanced
PortMapIndexNoAdvance(pm, plugin, id) ==
    IF id \in DOMAIN pm.index
    THEN [ports |-> pm, value |-> pm.index[id], how |-> "cached"]
    ELSE IF port_index(plugin, id.symbol) # None
    THEN LET i == port_index(plugin, id.symbol)[1]
         IN  [ports |-> [pm EXCEPT !.index = MapInsert(@, id, i)],
              value |-> i, how |-> "found"]
    ELSE LET count == IF id.uri \in DOMAIN pm.count THEN pm.count[id.uri]
                      ELSE num_ports(plugin)
         IN  [ports |-> [count |-> MapInsert(pm.count, id.uri, count),
                         index |-> MapInsert(pm.index, id, count)],
              value |-> count, how |-> "fallback"]

\* PortMap::index: the map after the call, the index returned, and which
\* of the three returns produced it
PortMapIndex(pm, plugin, id) ==
    IF id \in DOMAIN pm.index
    THEN [ports |-> pm, value |-> pm.index[id], how |-> "cached"]
    ELSE IF port_index(plugin, id.symbol) # None
    THEN LET i == port_index(plugin, id.symbol)[1]
         IN  [ports |-> [pm EXCEPT !.index = MapInsert(@, id, i)],
              value |-> i, how |-> "found"]
    ELSE LET count == IF id.uri \in DOMAIN pm.count THEN pm.count[id.uri]
                      ELSE num_ports(plugin)
         IN  [ports |-> [count |-> MapInsert(pm.count, id.uri, count + 1),
                         index |-> MapInsert(pm.index, id, count)],
              value |-> count, how |-> "fallback"]

\* the body of handle_processor's loop for one Parameter; st is the
\* Patcher's [ports, replacements] with the log of index calls
HandleParameter(st, plugin, uri, parameter) ==
    LET r == PortMapIndex(st.ports, plugin, PortId(uri, parameter.symbol))
        call == [uri |-> uri, symbol |-> parameter.symbol,
                 value |-> r.value, how |-> r.how]
    IN  [ports |-> r.ports,
         replacements |->
            IF r.value = parameter.old_index THEN st.replacements
            ELSE Append(st.replacements,
                        [location |-> parameter.location, value |-> r.value]),
         calls |-> Append(st.calls, call)]

RECURSIVE HandleParameters(_, _, _, _)
HandleParameters(st, plugin, uri, params) ==
    IF params = <<>> THEN st
    ELSE HandleParameters(HandleParameter(st, plugin, uri, Head(params)),
                          plugin, uri, Tail(params))

\* mutant: a plugin the provider does not have is taken to have no ports
handle_processor_unknown_plugin(st, pl, processor) ==
    LET plugin == PluginsGet(pl, processor.uri)
    IN  HandleParameters(st,
                         IF plugin = None
                         THEN [num_ports |-> 0, symbols |-> EmptyMap]
                         ELSE plugin[1],
                         processor.uri, parameters(processor))

\* Patcher::handle_processor
handle_processor(st, pl, processor) ==
    LET plugin == PluginsGet(pl, processor.uri)
    IN  IF plugin = None THEN st
        ELSE HandleParameters(st, plugin[1], processor.uri,
                              parameters(processor))

\* mutant: only the node's own next sibling, no climb to its ancestors
SiblingAboveOwn(d, anc) ==
    IF anc = <<>> THEN None ELSE next_sibling(d, Head(anc))

\* the closure of populate_replacements' loop
RECURSIVE SiblingAbove(_, _)
SiblingAbove(d, anc) ==
    IF anc = <<>> THEN None
    ELSE IF next_sibling(d, Head(anc)) # None THEN next_sibling(d, Head(anc))
    ELSE SiblingAbove(d, Tail(anc))

\* sort_unstable_by_key(|r| r.location.start): every order of the
\* replacements that is sorted by start (equal keys in any order)
RECURSIVE SortedOrders(_, _)
SortedOrders(reps, S) ==
    IF S = {} THEN {<<>>}
    ELSE UNION {{<<reps[i]>> \o r : r \in SortedOrders(reps, S \ {i})} :
                i \in {i \in S : \A j \in S :
                          reps[i].location.start <= reps[j].location.start}}

\* mutant: the cursor is left at the start of the replaced range
RECURSIVE FmtLoopKeepsOld(_, _, _, _, _)
FmtLoopKeepsOld(text, reps, k, pos, wr) ==
    IF k > Len(reps)
    THEN [wr EXCEPT !.text = @ \o Slice(text, pos, Len(text))]
    ELSE LET r == reps[k]
         IN  IF r.location.start < pos
             THEN FmtLoopKeepsOld(text, reps, k + 1, pos, wr)
             ELSE FmtLoopKeepsOld(text, reps, k + 1, r.location.start,
                          [text |-> wr.text
                                    \o Slice(text, pos, r.location.start)
                                    \o ToDecimal(r.value),
                           applied |-> Append(wr.applied, r)])

\* impl Display for PatchedSession: the loop from replacement k on, with
\* the cursor at pos; wr.text is what has been written, wr.applied the
\* replacements that were not skipped
RECURSIVE FmtLoop(_, _, _, _, _)
FmtLoop(text, reps, k, pos, wr) ==
    IF k > Len(reps)
    THEN [wr EXCEPT !.text = @ \o Slice(text, pos, Len(text))]
    ELSE LET r == reps[k]
         IN  IF r.location.start < pos
             THEN FmtLoop(text, reps, k + 1, pos, wr)
             ELSE FmtLoop(text, reps, k + 1, r.location.end,
                          [text |-> wr.text
                                    \o Slice(text, pos, r.location.start)
                                    \o ToDecimal(r.value),
                           applied |-> Append(wr.applied, r)])

Fmt(text, reps) == FmtLoop(text, reps, 1, 0, [text |-> <<>>, applied |-> <<>>])

---------------------------------------------------------------------------
(* Inputs: session documents and provider states.                          *)

SeqsUpTo(S, n) == UNION {[1..k -> S] : k \in 0..n}

UriU == <<"u">>
UriW == <<"w">>
SymX == <<"x">>
SymY == <<"y">>

IndexTexts == {<<"0">>, <<"1">>, <<"2">>}
Symbols == {SymX, SymY}

AutomationList(v) == Element("AutomationList", "automation-id" :> v)
Controllable(v, s) ==
    Element("Controllable", ("parameter" :> v) @@ ("symbol" :> s))
Processor(ty, uri) ==
    Element("Processor", ("type" :> ty) @@ ("unique-id" :> uri))

\* occurrences in the two recognised shapes, well formed
PlainOcc ==
    {AutomationList(Some(PREFIX \o v)) : v \in IndexTexts}
    \cup {Controllable(Some(v), Some(s)) : v \in IndexTexts, s \in Symbols}

\* occurrences that miss an attribute, the prefix, or the digits
OddOcc ==
    {AutomationList(None),
     AutomationList(Some(<<"g", "a", "i", "n">>)),
     AutomationList(Some(PREFIX)),
     AutomationList(Some(PREFIX \o <<"+", "1">>)),
     AutomationList(Some(PREFIX \o <<"0", "1">>)),
     Controllable(None, Some(SymX)),
     Controllable(Some(<<"1">>), None),
     Controllable(Some(<<"+", "1">>), Some(SymX)),
     Controllable(Some(<<"1", "x">>), Some(SymY)),
     Controllable(Some(<<"0", "1">>), Some(SymY))}

ProcessorHeads ==
    {Processor(Some(Lv2), Some(UriU)),
     Processor(Some(Lv2), Some(UriW)),
     Processor(Some(Lv2), None),
     Processor(Some(<<"l", "a", "d", "s", "p", "a">>), Some(UriU))}

AddNode(t, parent, n) ==
    [parent |-> Append(t.parent, parent), node |-> Append(t.node, n)]

\* the occurrences of a reference element: a Controllable is a child of the
\* Processor, an AutomationList the child of an Automation child of it
RECURSIVE AddOccurrences(_, _, _)
AddOccurrences(t, proc, occs) ==
    IF occs = <<>> THEN t
    ELSE LET o == Head(occs)
             t1 == IF o.tag = "AutomationList"
                   THEN LET w == AddNode(t, proc, Element("Automation", NoAttrs))
                        IN  AddNode(w, Len(w.node), o)
                   ELSE AddNode(t, proc, o)
         IN  AddOccurrences(t1, proc, Tail(occs))

RECURSIVE AddProcessors(_, _)
AddProcessors(t, procs) ==
    IF procs = <<>> THEN t
    ELSE LET t1 == AddNode(t, 2, Head(procs).head)
         IN  AddProcessors(AddOccurrences(t1, Len(t1.node), Head(procs).occ),
                           Tail(procs))

\* document root, a Session element, the reference elements under it
SessionTree(procs) ==
    AddProcessors([parent |-> <<0, 1>>,
                   node |-> <<RootNode, Element("Session", NoAttrs)>>], procs)

\* one reference element with up to MaxOcc well-formed occurrences
PlainTrees ==
    {SessionTree(<<[head |-> Processor(Some(Lv2), Some(UriU)), occ |-> o]>>) :
        o \in SeqsUpTo(PlainOcc, MaxOcc)}

\* one reference element whose occurrences may be malformed
OddTrees ==
    {SessionTree(<<[head |-> Processor(Some(Lv2), Some(UriU)), occ |-> o]>>) :
        o \in SeqsUpTo(OddOcc \cup
                       {AutomationList(Some(PREFIX \o <<"1">>)),
                        Controllable(Some(<<"1">>), Some(SymX)),
                        Controllable(Some(<<"1">>), Some(SymY))},
                       MaxOcc - 1)}

\* two Processor elements, the first of any kind
PairTrees ==
    {SessionTree(<<[head |-> h1, occ |-> o1],
                   [head |-> Processor(Some(Lv2), Some(u2)), occ |-> o2]>>) :
        h1 \in ProcessorHeads, u2 \in {UriU, UriW},
        o1 \in SeqsUpTo(PlainOcc, 1), o2 \in SeqsUpTo(PlainOcc, 1)}

\* two reference elements, one with a lone AutomationList, the other with
\* an AutomationList and a Controllable in either order
CrossTrees ==
    LET ALs == {AutomationList(Some(PREFIX \o v)) : v \in IndexTexts}
        lone == {<<a>> : a \in ALs}
        both == {<<a, c>> : a \in ALs, c \in PlainOcc \ ALs}
                \cup {<<c, a>> : a \in ALs, c \in PlainOcc \ ALs}
    IN  {SessionTree(<<[head |-> Processor(Some(Lv2), Some(UriU)),
                        occ |-> o[1]],
                       [head |-> Processor(Some(Lv2), Some(u2)),
                        occ |-> o[2]]>>) :
            u2 \in {UriU, UriW},
            o \in (lone \X both) \cup (both \X lone)}

\* no reference element: occurrences under a Route, under a Processor
\* that is not lv2, and under an lv2 Processor without its uri
LooseTrees ==
    {SessionTree(<<[head |-> h, occ |-> o]>>) :
        h \in {Element("Route", NoAttrs),
               Processor(Some(<<"l", "a", "d", "s", "p", "a">>), Some(UriU)),
               Processor(None, Some(UriU))},
        o \in SeqsUpTo(PlainOcc, 1)}

\* provider states: what lilv reports for the two uris
\* x is port 0 of u, y is no port of it; w is not installed
ProviderMixed ==
    (UriU :> Some([num_ports |-> 1, symbols |-> (SymX :> 0)]))
    @@ (UriW :> None)
\* x and y are ports of u; w has one port, neither x nor y
ProviderBoth ==
    (UriU :> Some([num_ports |-> 2, symbols |-> (SymX :> 1) @@ (SymY :> 0)]))
    @@ (UriW :> Some([num_ports |-> 1, symbols |-> EmptyMap]))
\* u has one port, neither x nor y; w is not installed
ProviderNeither ==
    (UriU :> Some([num_ports |-> 1, symbols |-> EmptyMap]))
    @@ (UriW :> None)

Inputs ==
    (PlainTrees \X {ProviderBoth, ProviderNeither})
    \cup (OddTrees \X {ProviderMixed})
    \cup (PairTrees \X {ProviderMixed, ProviderBoth})
    \cup (CrossTrees \X {ProviderBoth})
    \cup (LooseTrees \X {ProviderBoth})

---------------------------------------------------------------------------
(* The patch run: patch(), Patcher::run, Display for PatchedSession.       *)

NoArgs == [kind |-> "none"]

\* the files the process can touch: <session-file>, the file of -o, and
\* <session-file>.orig (backup[0]), <session-file>.orig1 (backup[1]), ...
NoFiles == [session |-> None, out |-> None,
            backup |-> [k \in 0..MaxBackups |-> None]]

\* where position p of the input text lies in the rendered text: every
\* applied replacement that ends at or before p shifts it
RECURSIVE Shift(_, _)
Shift(appl, p) ==
    IF appl = <<>> THEN 0
    ELSE LET r == Head(appl)
         IN  (IF r.location.end <= p
              THEN Len(ToDecimal(r.value)) - (r.location.end - r.location.start)
              ELSE 0) + Shift(Tail(appl), p)

OutPos(appl, p) == p + Shift(appl, p)

\* the bytes that the rendered text holds for range rg of the input text
FinalText(text, appl, rg) ==
    Slice(text, OutPos(appl, rg.start), OutPos(appl, rg.end))

\* the tree read back from the rendered text: every attribute value is
\* read at the place its range has moved to
Reread(d, text, appl) ==
    [parent |-> d.parent,
     node |-> [i \in Nodes(d) |->
        [tag |-> d.node[i].tag,
         attr |-> [n \in DOMAIN d.node[i].attr |->
            IF d.node[i].attr[n] = None THEN None
            ELSE Some(FinalText(text, appl, range_value(d, i, n)))]]]]

\* patch(): the Patcher over a parsed document
InitPatch(t, pl) ==
    /\ xml = InputText(t)
    /\ doc = Document(t)
    /\ plugins = pl
    /\ ports = PortMapNew
    /\ replacements = <<>>
    /\ next = Some(1)
    /\ out = <<>>
    /\ applied = <<>>
    /\ calls = <<>>
    /\ parsed = <<>>

Init ==
    /\ \E inp \in Inputs : InitPatch(inp[1], inp[2])
    /\ pass = 1
    /\ pc = "populate"
    /\ args = NoArgs
    /\ stdin = <<>>
    /\ fs = NoFiles
    /\ fs0 = NoFiles
    /\ backup = 0
    /\ stdout = <<>>
    /\ events = <<>>
    /\ exit = "running"

\* one iteration of the loop of populate_replacements
PopulateStep ==
    /\ pc = "populate"
    /\ next # None
    /\ LET node == next[1]
           isP == has_tag_name(doc, node, "Processor")
           p == ProcessorParse(doc, node)
           st == [ports |-> ports, replacements |-> replacements,
                  calls |-> <<>>]
           st1 == IF isP /\ p # None THEN handle_processor(st, plugins, p[1])
                  ELSE st
           down == IF isP THEN None ELSE first_child(doc, node)
       IN  /\ ports' = st1.ports
           /\ replacements' = st1.replacements
           /\ calls' = calls \o [k \in DOMAIN st1.calls |->
                                    [node |-> node] @@ st1.calls[k]]
           /\ parsed' = IF isP THEN Append(parsed, [node |-> node, result |-> p])
                        ELSE parsed
           /\ next' = IF down # None THEN down
                      ELSE SiblingAbove(doc, ancestors(doc, node))
    /\ UNCHANGED <<xml, doc, plugins, pc, out, applied, pass>>
    /\ UNCHANGED mainVars

\* Patcher::run after populate_replacements: the sort
RunSort ==
    /\ pc = "populate"
    /\ next = None
    /\ replacements' \in SortedOrders(replacements, DOMAIN replacements)
    /\ pc' = IF args = NoArgs THEN "render" ELSE "output"
    /\ UNCHANGED <<xml, doc, plugins, ports, next, out, applied, pass, calls,
                   parsed>>
    /\ UNCHANGED mainVars

\* to_string() of the PatchedSession
Render ==
    /\ pc = "render"
    /\ LET wr == Fmt(xml, replacements)
       IN  /\ out' = wr.text
           /\ applied' = wr.applied
    /\ pc' = "done"
    /\ UNCHANGED <<xml, doc, plugins, ports, replacements, next, pass, calls,
                   parsed>>
    /\ UNCHANGED mainVars

\* patch() again, on the text of the first run, with the same provider
Repatch ==
    /\ pc = "done"
    /\ pass = 1
    /\ LET t == Reread(doc, out, applied)
       IN  /\ InputText(t) = out
           /\ xml' = out
           /\ doc' = Document(t)
    /\ ports' = PortMapNew
    /\ replacements' = <<>>
    /\ next' = Some(1)
    /\ out' = <<>>
    /\ applied' = <<>>
    /\ calls' = <<>>
    /\ parsed' = <<>>
    /\ pass' = 2
    /\ pc' = "populate"
    /\ UNCHANGED plugins
    /\ UNCHANGED mainVars

Next == PopulateStep \/ RunSort \/ Render \/ Repatch

Spec == Init /\ [][Next]_vars

---------------------------------------------------------------------------
(* One patch run over nested documents: elements of every recognised tag  *)
(* at any depth, inside one another.                                       *)

WalkElements ==
    {Processor(Some(Lv2), Some(UriU)),
     Processor(Some(<<"l", "a", "d", "s", "p", "a">>), Some(UriU)),
     Processor(Some(Lv2), None),
     AutomationList(Some(PREFIX \o <<"2">>)),
     Controllable(Some(<<"2">>), Some(SymX))}

\* the elements a further element can be appended to as their last child:
\* the last element of the document and its ancestors, up to the Session
RightPath(t) == {a \in DOMAIN t.node : a # 1 /\ IsDescendant(t, Len(t.node), a)}
                \cup {Len(t.node)}

\* the documents of T with up to k elements more
RECURSIVE Grow(_, _)
Grow(T, k) ==
    IF k = 0 THEN T
    ELSE Grow(T \cup UNION {{AddNode(t, a, n) :
                                a \in RightPath(t), n \in WalkElements} :
                            t \in T},
              k - 1)

NestedTrees == Grow({SessionTree(<<>>)}, MaxNodes)

InitWalk ==
    /\ \E t \in NestedTrees : InitPatch(t, ProviderBoth)
    /\ pass = 1
    /\ pc = "populate"
    /\ args = NoArgs
    /\ stdin = <<>>
    /\ fs = NoFiles
    /\ fs0 = NoFiles
    /\ backup = 0
    /\ stdout = <<>>
    /\ events = <<>>
    /\ exit = "running"

NextWalk == PopulateStep \/ RunSort \/ Render

SpecWalk == InitWalk /\ [][NextWalk]_vars

---------------------------------------------------------------------------
(* main.rs: the process.                                                   *)

Usage == <<"U", "s", "a", "g", "e">>

\* command lines, by what args::parse makes of them
CommandLines ==
    {[kind |-> "help"], [kind |-> "malformed"]}
    \cup {[kind |-> "run", input |-> i, o |-> o] :
            i \in {"missing", "stdin", "path"},
            o \in {"inplace", "stdout", "path"}}

\* args::parse: Help, an ArgsError, or Run(RunArgs); standard input is
\* never patched in place
ArgsParse(cmd) ==
    IF cmd.kind = "help" THEN [kind |-> "help"]
    ELSE IF cmd.kind = "malformed" THEN [kind |-> "error"]
    ELSE IF cmd.input = "missing" THEN [kind |-> "error"]
    ELSE [kind |-> "run", input |-> cmd.input,
          output |-> IF cmd.input = "stdin" /\ cmd.o = "inplace"
                     THEN "stdout" ELSE cmd.o]

\* mutant: the provider is initialized before the document is parsed
RunFlowProviderFirst(stage, ok) ==
    IF ~ok THEN "exited"
    ELSE CASE stage = "args" -> "read"
           [] stage = "read" -> "lv2"
           [] stage = "lv2" -> "parse"
           [] stage = "parse" -> "populate"
           [] stage = "backup" -> "write"
           [] stage = "write" -> "exited"

\* mutant: the error of Plugins::new is not propagated
RunFlowIgnoresProvider(stage, ok) ==
    IF ~ok /\ stage # "lv2" THEN "exited"
    ELSE CASE stage = "args" -> "read"
           [] stage = "read" -> "parse"
           [] stage = "parse" -> "lv2"
           [] stage = "lv2" -> "populate"
           [] stage = "backup" -> "write"
           [] stage = "write" -> "exited"

\* the order of run() and patch(): where a step that ended ok or with an
\* error (the `?` of run and of patch) leaves the process
RunFlow(stage, ok) ==
    IF ~ok THEN "exited"
    ELSE CASE stage = "args" -> "read"
           [] stage = "read" -> "parse"
           [] stage = "parse" -> "lv2"
           [] stage = "lv2" -> "populate"
           [] stage = "backup" -> "write"
           [] stage = "write" -> "exited"

\* main: the exit code once run() has returned Ok (ok) or Err
ExitCode(to, ok) ==
    IF to # "exited" THEN "running"
    ELSE IF ok THEN "SUCCESS" ELSE "FAILURE"

\* the text that the PatchedSession of this run displays
Patched == Fmt(xml, replacements).text

EmptyDocument == Document([parent |-> <<>>, node |-> <<>>])

OldText == <<"o", "l", "d">>
Malformed == <<"<", "o">>

MainTrees ==
    {SessionTree(<<[head |-> Processor(Some(Lv2), Some(UriU)),
                    occ |-> <<AutomationList(Some(PREFIX \o <<"2">>)),
                              Controllable(Some(<<"2">>), Some(SymX))>>]>>),
     SessionTree(<<[head |-> Processor(Some(Lv2), Some(UriU)),
                    occ |-> <<Controllable(Some(<<"1">>), Some(SymX))>>]>>),
     SessionTree(<<[head |-> Element("Route", NoAttrs),
                    occ |-> <<Controllable(Some(<<"2">>), Some(SymX))>>]>>)}

InitMain ==
    /\ \E content \in {None, Some(Malformed)}
                      \cup {Some(InputText(t)) : t \in MainTrees},
          o \in {None, Some(OldText)},
          b \in SUBSET (0..(MaxBackups - 1)) :
            fs = [session |-> content, out |-> o,
                  backup |-> [k \in 0..MaxBackups |->
                                IF k \in b THEN Some(OldText) ELSE None]]
    /\ fs0 = fs
    /\ stdin \in {Malformed} \cup {InputText(t) : t \in MainTrees}
    /\ plugins = ProviderBoth
    /\ xml = <<>>
    /\ doc = EmptyDocument
    /\ ports = PortMapNew
    /\ replacements = <<>>
    /\ next = Some(1)
    /\ out = <<>>
    /\ applied = <<>>
    /\ calls = <<>>
    /\ parsed = <<>>
    /\ pass = 1
    /\ pc = "args"
    /\ args = [kind |-> "unparsed"]
    /\ backup = 0
    /\ stdout = <<>>
    /\ events = <<>>
    /\ exit = "running"

\* run(): args::parse and its three outcomes
ParseArgs ==
    /\ pc = "args"
    /\ \E cmd \in CommandLines :
        LET r == ArgsParse(cmd)
        IN  /\ args' = r
            /\ pc' = RunFlow("args", r.kind = "run")
            /\ exit' = ExitCode(pc', r.kind = "help")
            /\ stdout' = IF r.kind = "help" THEN stdout \o Usage ELSE stdout
    /\ UNCHANGED <<stdin, fs, fs0, backup, events>>
    /\ UNCHANGED patchVars

\* run(): read_to_string of standard input or of the session file
ReadInput ==
    /\ pc = "read"
    /\ LET got == IF args.input = "stdin" THEN Some(stdin) ELSE fs.session
       IN  /\ xml' = IF got # None THEN got[1] ELSE xml
           /\ events' = Append(events, IF got # None THEN "read"
                                       ELSE "read_error")
           /\ pc' = RunFlow("read", got # None)
           /\ exit' = ExitCode(pc', FALSE)
    /\ UNCHANGED <<args, stdin, fs, fs0, backup, stdout>>
    /\ UNCHANGED <<doc, plugins, ports, replacements, next, out, applied,
                   pass, calls, parsed>>

\* patch(): roxmltree::Document::parse(xml)?
ParseDocument ==
    /\ pc = "parse"
    /\ LET ts == {t \in MainTrees : InputText(t) = xml}
       IN  /\ doc' = IF ts # {} THEN Document(CHOOSE t \in ts : TRUE) ELSE doc
           /\ events' = Append(events, IF ts # {} THEN "parsed"
                                       ELSE "xml_error")
           /\ pc' = RunFlow("parse", ts # {})
           /\ exit' = ExitCode(pc', FALSE)
    /\ UNCHANGED <<args, stdin, fs, fs0, backup, stdout>>
    /\ UNCHANGED <<xml, plugins, ports, replacements, next, out, applied,
                   pass, calls, parsed>>

\* patch(): Plugins::new()?, where lilv_world_new may return null
PluginsNew ==
    /\ pc = "lv2"
    /\ \E ok \in BOOLEAN :
        /\ events' = Append(events, IF ok THEN "lv2" ELSE "lv2_error")
        /\ pc' = RunFlow("lv2", ok)
        /\ exit' = ExitCode(pc', FALSE)
    /\ UNCHANGED <<args, stdin, fs, fs0, backup, stdout>>
    /\ UNCHANGED patchVars

\* run(): Output::Stdout
PrintOutput ==
    /\ pc = "output"
    /\ args.output = "stdout"
    /\ stdout' = stdout \o Patched
    /\ events' = Append(events, "print")
    /\ pc' = RunFlow("write", TRUE)
    /\ exit' = ExitCode(pc', TRUE)
    /\ UNCHANGED <<args, stdin, fs, fs0, backup>>
    /\ UNCHANGED patchVars

\* write_display: File::create and the write, or an error of File::create
write_display(files, path, contents, ok) ==
    IF ~ok THEN files
    ELSE IF path = "out" THEN [files EXCEPT !.out = Some(contents)]
    ELSE [files EXCEPT !.session = Some(contents)]

\* run(): Output::Path
WriteOutputPath ==
    /\ pc = "output"
    /\ args.output = "path"
    /\ \E ok \in BOOLEAN :
        /\ fs' = write_display(fs, "out", Patched, ok)
        /\ events' = Append(events, IF ok THEN "write" ELSE "write_error")
        /\ pc' = "exited"
        /\ exit' = ExitCode(pc', ok)
    /\ UNCHANGED <<args, stdin, fs0, backup, stdout>>
    /\ UNCHANGED patchVars

\* create_backup: one iteration of its loop, with backup number `backup`
CreateBackupStep ==
    /\ pc = "output"
    /\ args.output = "inplace"
    /\ IF fs.backup[backup] # None
       THEN \* AlreadyExists: the next extension
            /\ backup' = backup + 1
            /\ UNCHANGED <<fs, events, pc, exit>>
       ELSE \E res \in {"ok", "open_error", "rename_error"} :
            /\ fs' = CASE res = "ok" ->
                            [fs EXCEPT !.backup[backup] = fs.session,
                                       !.session = None]
                       [] res = "rename_error" ->
                            [fs EXCEPT !.backup[backup] = Some(<<>>)]
                       [] res = "open_error" -> fs
            /\ events' = Append(events, IF res = "ok" THEN "backup"
                                        ELSE "backup_error")
            /\ pc' = RunFlow("backup", res = "ok")
            /\ exit' = ExitCode(pc', FALSE)
            /\ UNCHANGED backup
    /\ UNCHANGED <<args, stdin, fs0, stdout>>
    /\ UNCHANGED patchVars

\* run(): Output::InPlace, write_output(path) after the backup
WriteInPlace ==
    /\ pc = "write"
    /\ \E ok \in BOOLEAN :
        /\ fs' = write_display(fs, "session", Patched, ok)
        /\ events' = Append(events, IF ok THEN "write" ELSE "write_error")
        /\ pc' = RunFlow("write", TRUE)
        /\ exit' = ExitCode(pc', ok)
    /\ UNCHANGED <<args, stdin, fs0, backup, stdout>>
    /\ UNCHANGED patchVars

NextMain ==
    \/ ParseArgs \/ ReadInput \/ ParseDocument \/ PluginsNew
    \/ PopulateStep \/ RunSort
    \/ PrintOutput \/ WriteOutputPath \/ CreateBackupStep \/ WriteInPlace

SpecMain == InitMain /\ [][NextMain]_vars

---------------------------------------------------------------------------
(* Claims.                                                                 *)

Done == pc = "done"

\* the rendered text, position by position of the input text: at the start
\* of an applied replacement its decimal value, no byte of an applied
\* range, every other byte as it is
RECURSIVE ByPosition(_, _, _)
ByPosition(text, appl, i) ==
    IF i >= Len(text) THEN <<>>
    ELSE LET starts == {k \in DOMAIN appl : appl[k].location.start = i}
             inside == \E k \in DOMAIN appl :
                          /\ appl[k].location.start <= i
                          /\ i < appl[k].location.end
         IN  (IF starts = {} THEN <<>>
              ELSE ToDecimal(appl[CHOOSE k \in starts : TRUE].value))
             \o (IF inside THEN <<>> ELSE <<text[i + 1]>>)
             \o ByPosition(text, appl, i + 1)

IsReferenceElement(d, i) ==
    has_tag_name(d, i, "Processor") /\ attribute(d, i, "type") = Some(Lv2)

\* C1: the rendered text is the input text with the range of each applied
\* replacement replaced by the decimal of its value and every other byte
\* copied in order; a document without a Processor of type lv2 is rendered
\* as the input text itself.
C1_RenderedText ==
    Done =>
        /\ out = ByPosition(xml, applied, 0)
        /\ (\A i \in Nodes(doc) : ~IsReferenceElement(doc, i)) => out = xml

C1_Witness ==
    /\ Done
    /\ Len(applied) >= 2
    /\ \E k \in DOMAIN applied :
          applied[k].location.end - applied[k].location.start = 2
    /\ out # xml

\* C2: the patch run over the text of a first run generates no replacement
\* and renders its input unchanged.
C2_Idempotent ==
    (pass = 2 /\ pc \in {"render", "done"}) => replacements = <<>>

\* C3: within one run every call of PortMap::index with the same
\* (uri, symbol) returns the index the first call with that key returned.
C3_SameKeySameIndex ==
    \A i, j \in DOMAIN calls :
        (calls[i].uri = calls[j].uri /\ calls[i].symbol = calls[j].symbol)
            => calls[i].value = calls[j].value

C3_Witness ==
    \E i, j \in DOMAIN calls :
        /\ i < j
        /\ calls[i].node # calls[j].node
        /\ calls[i].uri = calls[j].uri /\ calls[i].symbol = calls[j].symbol
        /\ calls[i].how = "fallback"

\* what the provider says about call c, whatever PortMap::index did
Unresolvable(c) == port_index(PluginsGet(plugins, c.uri)[1], c.symbol) = None

\* the unresolvable symbols of the uri of call k first resolved before the
\* symbol of call k was
EarlierUnresolved(k) ==
    LET first == Min({j \in DOMAIN calls :
                        /\ calls[j].uri = calls[k].uri
                        /\ calls[j].symbol = calls[k].symbol})
    IN  {calls[j].symbol : j \in {j \in 1..(first - 1) :
                                    /\ calls[j].uri = calls[k].uri
                                    /\ Unresolvable(calls[j])}}

\* C4: the k-th distinct unresolvable symbol of a uri, in order of first
\* resolution, gets num_ports + k - 1: fallback indices of distinct symbols
\* of a uri differ, are >= num_ports, differ from every index the provider
\* returned for the uri, and a repeated symbol does not advance the counter.
C4_FallbackIndices ==
    /\ \A k \in DOMAIN calls :
          Unresolvable(calls[k]) =>
            /\ calls[k].value =
                 num_ports(PluginsGet(plugins, calls[k].uri)[1])
                 + Cardinality(EarlierUnresolved(k))
            /\ calls[k].value >= num_ports(PluginsGet(plugins, calls[k].uri)[1])
            /\ \A j \in DOMAIN calls :
                  (calls[j].uri = calls[k].uri
                   /\ calls[j].symbol # calls[k].symbol)
                      => calls[j].value # calls[k].value
    /\ \A u \in DOMAIN ports.count :
          ports.count[u] =
            num_ports(PluginsGet(plugins, u)[1])
            + Cardinality({calls[k].symbol : k \in {k \in DOMAIN calls :
                              calls[k].uri = u /\ Unresolvable(calls[k])}})

C4_Witness ==
    \E i, j, k \in DOMAIN calls :
        /\ i < j /\ j < k
        /\ calls[i].uri = calls[j].uri /\ calls[j].uri = calls[k].uri
        /\ Unresolvable(calls[i]) /\ Unresolvable(calls[j])
        /\ calls[i].symbol # calls[j].symbol
        /\ calls[k].symbol = calls[i].symbol
        /\ calls[j].value = calls[i].value + 1

---------------------------------------------------------------------------

Descendants(d, i) == {n \in Nodes(d) : IsDescendant(d, n, i)}

Max(S) == CHOOSE m \in S : \A o \in S : m >= o

\* the bytes of node i with its subtree
NodeSpan(d, i) == [start |-> d.pos[i], end |-> d.pos[i] + Len(NodeText(d, i))]

Within(rg, span) == span.start <= rg.start /\ rg.end <= span.end

Overlaps(a, b) == a.start < b.end /\ b.start < a.end

\* the Processor elements that Processor::parse accepted in this run
ParsedElements == {k \in DOMAIN parsed : parsed[k].result # None}

\* those whose plugin the provider has
HandledElements ==
    {k \in ParsedElements :
        PluginsGet(plugins, parsed[k].result[1].uri) # None}

\* the text of the digits of an index occurrence, if the element has them
IndexText(d, n) ==
    IF has_tag_name(d, n, "AutomationList")
    THEN IF attribute(d, n, "automation-id") = None THEN None
         ELSE strip_prefix(attribute(d, n, "automation-id")[1], PREFIX)
    ELSE IF has_tag_name(d, n, "Controllable")
    THEN attribute(d, n, "parameter")
    ELSE None

\* and where those digits are
IndexRange(d, n) ==
    IF has_tag_name(d, n, "AutomationList")
    THEN LET rg == range_value(d, n, "automation-id")
         IN  [start |-> rg.end - Len(IndexText(d, n)[1]), end |-> rg.end]
    ELSE range_value(d, n, "parameter")

HasIndex(d, n) ==
    /\ IndexText(d, n) # None
    /\ IndexText(d, n)[1] # <<>>
    /\ \A k \in DOMAIN IndexText(d, n)[1] : IsAsciiDigit(IndexText(d, n)[1][k])

IndexOf(d, n) == DigitsValue(IndexText(d, n)[1])

Untouched(d, n) ==
    /\ \A k \in DOMAIN replacements :
          ~Overlaps(replacements[k].location, IndexRange(d, n))
    /\ Done => FinalText(out, applied, IndexRange(d, n)) = IndexText(d, n)[1]

\* the number the rendered text holds at the index occurrence of n
FinalIndex(d, n) == U32FromStr(FinalText(out, applied, IndexRange(d, n)))

\* the index that resolving (uri, symbol) gives in this run: the
\* provider's, or else the fallback index the PortMap holds for it
IsResolved(uri, symbol, v) ==
    LET found == port_index(PluginsGet(plugins, uri)[1], symbol)
    IN  IF found # None THEN v = found[1]
        ELSE /\ PortId(uri, symbol) \in DOMAIN ports.index
             /\ v = ports.index[PortId(uri, symbol)]
             /\ v >= num_ports(PluginsGet(plugins, uri)[1])

\* C5: a reference element whose plugin the provider does not have gets no
\* index call and no replacement, its text is rendered unchanged, and the
\* step that handles it leaves the PortMap and the replacements as they
\* were and goes on with the traversal.
C5_State ==
    \A k \in ParsedElements \ HandledElements :
        /\ \A c \in DOMAIN calls : calls[c].node # parsed[k].node
        /\ \A r \in DOMAIN replacements :
              ~Overlaps(replacements[r].location, NodeSpan(doc, parsed[k].node))
        /\ Done => FinalText(out, applied, NodeSpan(doc, parsed[k].node))
                      = NodeText(doc, parsed[k].node)

AtUnknownPlugin ==
    /\ pc = "populate"
    /\ next # None
    /\ has_tag_name(doc, next[1], "Processor")
    /\ ProcessorParse(doc, next[1]) # None
    /\ PluginsGet(plugins, ProcessorParse(doc, next[1])[1].uri) = None

C5_UnknownPluginSkipped ==
    /\ []C5_State
    /\ [][AtUnknownPlugin =>
            /\ ports' = ports
            /\ replacements' = replacements
            /\ calls' = calls
            /\ pc' = "populate"
            /\ next' # None =>
                  /\ next'[1] > next[1]
                  /\ ~IsDescendant(doc, next'[1], next[1])]_vars

C5_Witness ==
    /\ Done
    /\ \E k \in ParsedElements \ HandledElements :
          /\ \E n \in Descendants(doc, parsed[k].node) :
                has_tag_name(doc, n, "Controllable")
          /\ \E j \in HandledElements : j > k /\ applied # <<>>

\* the Controllables of element e that carry index i and a symbol
Associating(d, e, i) ==
    {c \in Descendants(d, e) :
        /\ has_tag_name(d, c, "Controllable")
        /\ HasIndex(d, c)
        /\ IndexOf(d, c) = i
        /\ attribute(d, c, "symbol") # None}

\* C6: in a reference element whose plugin is found, the digits of an
\* AutomationList's parameter-N are rendered as the index resolved for the
\* symbol that a Controllable of the same element carries with index N
\* (the last such Controllable, wherever it stands); without such a
\* Controllable in the element the digits are left as they are.
C6_AutomationListIndex ==
    Done =>
      \A k \in HandledElements :
        \A a \in Descendants(doc, parsed[k].node) :
          (has_tag_name(doc, a, "AutomationList") /\ HasIndex(doc, a)) =>
            LET cs == Associating(doc, parsed[k].node, IndexOf(doc, a))
            IN  IF cs = {} THEN Untouched(doc, a)
                ELSE /\ FinalIndex(doc, a) # None
                     /\ IsResolved(parsed[k].result[1].uri,
                                   attribute(doc, Max(cs), "symbol")[1],
                                   FinalIndex(doc, a)[1])

\* an AutomationList rewritten through a Controllable that follows it, while
\* an AutomationList of another element with the same index stays
C6_Witness ==
    /\ Done
    /\ \E k \in HandledElements :
        \E a \in Descendants(doc, parsed[k].node) :
          /\ has_tag_name(doc, a, "AutomationList") /\ HasIndex(doc, a)
          /\ \E c \in Associating(doc, parsed[k].node, IndexOf(doc, a)) : c > a
          /\ \E r \in DOMAIN applied :
                applied[r].location = IndexRange(doc, a)
          /\ \E b \in Nodes(doc) \ Descendants(doc, parsed[k].node) :
                /\ has_tag_name(doc, b, "AutomationList") /\ HasIndex(doc, b)
                /\ IndexOf(doc, b) = IndexOf(doc, a)
                /\ Untouched(doc, b)

\* C7: in a reference element whose plugin is found, the index of every
\* Controllable with digits and a symbol is rendered as the index resolved
\* for the Controllable's own symbol.
C7_ControllableOwnSymbol ==
    Done =>
      \A k \in HandledElements :
        \A c \in Descendants(doc, parsed[k].node) :
          (/\ has_tag_name(doc, c, "Controllable")
           /\ HasIndex(doc, c)
           /\ attribute(doc, c, "symbol") # None) =>
            /\ FinalIndex(doc, c) # None
            /\ IsResolved(parsed[k].result[1].uri,
                          attribute(doc, c, "symbol")[1],
                          FinalIndex(doc, c)[1])

\* the index occurrences whose text holds a byte that is no ASCII digit
BadOccurrences(d, e) ==
    {n \in Descendants(d, e) :
        /\ IndexText(d, n) # None
        /\ \E k \in DOMAIN IndexText(d, n)[1] :
              ~IsAsciiDigit(IndexText(d, n)[1][k])}

\* the document with the elements B under names the extractor does not know
Retagged(d, B) ==
    [d EXCEPT !.node = [i \in Nodes(d) |->
        IF i \in B THEN [d.node[i] EXCEPT !.tag = "Skipped"] ELSE d.node[i]]]

\* C8: an index occurrence with a non-digit in its text gives the Processor
\* no parameters entry and no symbol, its text is rendered unchanged, and
\* the Processor extracted is the one extracted from the document in which
\* the bad occurrences are elements of another name.
C8_BadIndexSkipped ==
    \A k \in ParsedElements :
        LET e == parsed[k].node
            p == parsed[k].result[1]
            bad == BadOccurrences(doc, e)
            q == ProcessorParse(Retagged(doc, bad), e)[1]
        IN  /\ \A n \in bad :
                  /\ \A i \in DOMAIN p.parameters :
                        ~Overlaps(p.parameters[i].range,
                                  NodeSpan(doc, n))
                  /\ Untouched(doc, n)
            /\ \A i \in DOMAIN p.symbols :
                  Associating(doc, e, i) # {}
            /\ p.symbols = q.symbols
            /\ p.parameters = q.parameters

C8_Witness ==
    /\ Done
    /\ \E k \in HandledElements :
          /\ BadOccurrences(doc, parsed[k].node) # {}
          /\ \E n \in BadOccurrences(doc, parsed[k].node) :
                has_tag_name(doc, n, "Controllable")
                /\ attribute(doc, n, "symbol") # None
          /\ \E r \in DOMAIN applied :
                Within(applied[r].location, NodeSpan(doc, parsed[k].node))

---------------------------------------------------------------------------

\* C9 as stated: when Plugins::new fails, nothing has been read, parsed or
\* written before.
C9_InitFailsBeforeReading ==
    \A k \in DOMAIN events :
        events[k] = "lv2_error" =>
            /\ \A j \in 1..(k - 1) : events[j] \notin {"read", "parsed"}
            /\ fs = fs0 /\ stdout = <<>>

\* C9, amended: when Plugins::new fails, the input text has been read and
\* the document parsed, nothing has been written, and nothing follows: no
\* output, no backup, the files as they were, a failure exit.
C9_InitFailsBeforeWriting ==
    \A k \in DOMAIN events :
        events[k] = "lv2_error" =>
            /\ SubSeq(events, 1, k - 1) = <<"read", "parsed">>
            /\ k = Len(events)
            /\ fs = fs0 /\ stdout = <<>>
            /\ pc = "exited" /\ exit = "FAILURE"

C9_Witness ==
    /\ \E k \in DOMAIN events : events[k] = "lv2_error"
    /\ args.output = "inplace"
    /\ fs.session # None
    /\ pc = "exited"

\* C10: after a document parse failure or a provider initialization
\* failure nothing is on standard output, every file is as it was (no
\* output file, no backup, the session file in place and unchanged), and
\* the process has ended with the failure exit status.
C10_FatalNoOutput ==
    (\E k \in DOMAIN events : events[k] \in {"xml_error", "lv2_error"}) =>
        /\ stdout = <<>>
        /\ fs = fs0
        /\ pc = "exited" /\ exit = "FAILURE"
        /\ \A k \in DOMAIN events :
              events[k] \notin {"backup", "write", "print"}

C10_Witness ==
    /\ \E k \in DOMAIN events : events[k] = "xml_error"
    /\ args.output = "inplace"
    /\ fs0.backup[0] # None
    /\ exit = "FAILURE"

---------------------------------------------------------------------------

\* a run in place that has ended with the success exit status
InPlaceSuccess ==
    /\ pc = "exited" /\ exit = "SUCCESS"
    /\ args.kind = "run" /\ args.output = "inplace"

\* C11: after a successful run in place, <session-file>.orig holds the
\* session text as it was before the run and <session-file> holds the
\* patched text, whatever backups existed before.
C11_BackupInOrig ==
    InPlaceSuccess =>
        /\ fs.backup[0] = fs0.session
        /\ fs.session = Some(Patched)

---------------------------------------------------------------------------

\* the attribute values of the document that hold the range rg
AttrValuesHolding(d, rg) ==
    {av \in {<<n, a>> : n \in Nodes(d), a \in DOMAIN NoAttrs} :
        /\ attribute(d, av[1], av[2]) # None
        /\ Within(rg, range_value(d, av[1], av[2]))}

\* the positions of the render cursor: 0, then the end of each replacement
\* the renderer wrote
Cursor == <<0>> \o [k \in DOMAIN applied |-> applied[k].location.end]

\* C12: every edit lies in one attribute value, no attribute value holds
\* two edits and no two edits overlap; once sorted each edit starts at or
\* after the end of the one before it; the renderer writes every edit
\* (skips none) and its cursor never decreases.
C12_EditsDisjoint ==
    /\ \A i \in DOMAIN replacements :
          /\ replacements[i].location.start < replacements[i].location.end
          /\ Cardinality(AttrValuesHolding(doc, replacements[i].location)) = 1
    /\ \A i, j \in DOMAIN replacements :
          i # j =>
            /\ ~Overlaps(replacements[i].location, replacements[j].location)
            /\ AttrValuesHolding(doc, replacements[i].location)
                  # AttrValuesHolding(doc, replacements[j].location)
    /\ pc \in {"render", "done"} =>
          \A k \in 1..(Len(replacements) - 1) :
              replacements[k + 1].location.start
                  >= replacements[k].location.end
    /\ Done =>
          /\ applied = replacements
          /\ \A k \in 1..(Len(Cursor) - 1) : Cursor[k] <= Cursor[k + 1]

C12_Witness ==
    /\ Done
    /\ pass = 1
    /\ Len(applied) >= 3
    /\ \E i, j \in DOMAIN applied :
          /\ i < j
          /\ applied[i].value # applied[j].value
          /\ \E n \in Nodes(doc) :
                /\ has_tag_name(doc, n, "AutomationList")
                /\ Within(applied[j].location,
                          range_value(doc, n, "automation-id"))

---------------------------------------------------------------------------

\* the nodes without a Processor-tagged proper ancestor
Outside(d) ==
    {n \in Nodes(d) :
        \A a \in Nodes(d) :
            IsDescendant(d, n, a) => ~has_tag_name(d, a, "Processor")}

\* the node of Outside(d) that follows n in document order
NextOutside(d, n) ==
    LET later == {m \in Outside(d) : m > n}
    IN  IF later = {} THEN None ELSE Some(Min(later))

\* the nodes the loop of populate_replacements has visited in this run
VisitedSoFar ==
    {n \in Outside(doc) : pc # "populate" \/ next = None \/ n < next[1]}

\* the nodes handed to handle_processor in this run
Handed == {parsed[k].node : k \in ParsedElements}

\* the visits of populate_replacements: the node in hand is outside every
\* Processor; the Processor elements visited so far have been given to
\* Processor::parse once each, in document order
C13_Visits ==
    /\ (pc = "populate" /\ next # None) => next[1] \in Outside(doc)
    /\ {parsed[k].node : k \in DOMAIN parsed}
          = {n \in VisitedSoFar : has_tag_name(doc, n, "Processor")}
    /\ \A j, k \in DOMAIN parsed : j < k => parsed[j].node < parsed[k].node

\* the steps of populate_replacements: from the root, each iteration goes
\* to the next node in document order that is outside every Processor, and
\* the loop ends when there is none
C13_Steps ==
    (pc = "populate" /\ next # None) => next' = NextOutside(doc, next[1])

\* C13 as stated: populate_replacements visits in document order, once
\* each, the nodes without a Processor-tagged proper ancestor and then
\* ends, and every Processor of type lv2 it visits is handed to
\* handle_processor once, in document order.
C13_EveryReferenceHandled ==
    /\ next = Some(1)
    /\ [](/\ C13_Visits
          /\ Handed = {n \in VisitedSoFar : IsReferenceElement(doc, n)})
    /\ [][C13_Steps]_vars

\* C13, amended: the same, where the Processor elements of type lv2 that
\* are handed to handle_processor are those that have a unique-id.
C13_OuterTraversal ==
    /\ next = Some(1)
    /\ [](/\ C13_Visits
          /\ Handed = {n \in VisitedSoFar :
                          /\ IsReferenceElement(doc, n)
                          /\ attribute(doc, n, "unique-id") # None})
    /\ [][C13_Steps]_vars

C13_Witness ==
    /\ pc = "populate" /\ next = None
    /\ Outside(doc) # Nodes(doc)
    /\ Handed # {}
    /\ \E n \in Outside(doc) :
          /\ IsReferenceElement(doc, n)
          /\ n \notin Handed

---------------------------------------------------------------------------

IsOccurrenceTag(d, n) ==
    has_tag_name(d, n, "AutomationList") \/ has_tag_name(d, n, "Controllable")

\* the proper descendants of e without an AutomationList or Controllable
\* between e and themselves
Reachable(d, e) ==
    {n \in Descendants(d, e) :
        \A a \in Descendants(d, e) :
            IsDescendant(d, n, a) => ~IsOccurrenceTag(d, a)}

====
